---- MODULE Spec2Model ----
(***************************************************************************)
(* Reset-to-entry bootstrap of the femto-riscv demo.                       *)
(*                                                                         *)
(* Two startup variants are modelled side by side:                         *)
(*   "main"  - src/src/main.rs   (register clear, sp/fp, jal; UART echo)   *)
(*   "step9" - src/steps/step9.rs (gp, sp/fp, .data copy, .bss zero,       *)
(*             register clear, jal; entry function panics at once)         *)
(*                                                                         *)
(* The assembly of _start is kept as an instruction table and executed by  *)
(* one action per opcode.  Pseudo-instructions (li, la, mv) retire in one  *)
(* step.  Branch offsets are counted in table entries.  The linker symbols *)
(* and the reset-time contents of registers and memory are inputs.         *)
(***************************************************************************)
EXTENDS Integers, Sequences, FiniteSets, TLC

VARIABLES
    variant,    \* which startup file is built: "main" or "step9"
    sym,        \* linker-provided symbols (name -> byte address)
    regs,       \* general-purpose registers x1..x31 (name -> 32-bit value)
    mem,        \* word-addressed memory (byte address of word -> 32-bit value)
    pc,         \* index of the next instruction of _start (0 once it has left)
    loc,        \* "_start", then the position inside the Rust code
    b,          \* the local `b` of start() (main.rs:56)
    regs0,      \* history: register file at reset
    stale,      \* history: registers whose value still derives from regs0
    mem0,       \* history: memory at reset
    steps,      \* history: bring-up steps of _start in the order first entered
    bus,        \* history: loads/stores issued by _start
    io          \* history: volatile accesses issued by start()

vars == <<variant, sym, regs, mem, pc, loc, b, regs0, stale, mem0, steps, bus, io>>

-----------------------------------------------------------------------------
(* Bounds of the explored inputs *)

MaxDataWords == 2      \* .data region: 0..MaxDataWords words
MaxBssWords == 4       \* .bss region: 0..MaxBssWords words
GapWords == 1          \* padding words between _edata and _sbss
MaxPolls == 2          \* the status register reads zero at most this often

-----------------------------------------------------------------------------
(* Machine arithmetic *)

\* A register or memory word is 32 bits wide; it is held as its two's-complement
\* value, MinInt32..MaxInt32 (0xFFFFFFFF is -1).  Equality, which is all that
\* beq/bne test, does not depend on the reading.
MaxInt32 == (2^30 - 1) * 2 + 1
MinInt32 == (-MaxInt32) - 1

\* 32-bit addition with wraparound
Add32(a, c) ==
    IF c >= 0 /\ a > MaxInt32 - c
    THEN (a - MaxInt32 - 1) + (c - MaxInt32 - 1)
    ELSE IF c < 0 /\ a < MinInt32 - c
         THEN (a + MaxInt32 + 1) + (c + MaxInt32 + 1)
         ELSE a + c

\* 0xFFFFFFFF
Garbage == -1

\* x1..x31 by ABI name, in register-number order
RegNames ==
    << "ra", "sp", "gp", "tp", "t0", "t1", "t2", "fp", "s1",
       "a0", "a1", "a2", "a3", "a4", "a5", "a6", "a7",
       "s2", "s3", "s4", "s5", "s6", "s7", "s8", "s9", "s10", "s11",
       "t3", "t4", "t5", "t6" >>

Regs == { RegNames[i] : i \in 1..Len(RegNames) }

\* x0 reads as zero
ReadReg(rf, r) == IF r = "zero" THEN 0 ELSE rf[r]

\* writes to x0 are discarded
WriteReg(rf, r, v) == IF r = "zero" THEN rf ELSE [rf EXCEPT ![r] = v]

-----------------------------------------------------------------------------
(* Memory map and linker symbols (inputs of _start) *)

ResetVector == 0 * 4          \* address of _start
LoadBase == 4 * 1024          \* _sidata: load image of .data
RamBase == 4 * 4096           \* _sdata: start of RAM
GlobalPointerBias == 4 * 512  \* __global_pointer$ - _sdata

FlashWords == MaxDataWords + 1
RamWords == MaxDataWords + GapWords + MaxBssWords + 1

FlashAddrs == { LoadBase + 4 * k : k \in 0..(FlashWords - 1) }
RamAddrs == { RamBase + 4 * k : k \in 0..(RamWords - 1) }
MemAddrs == FlashAddrs \cup RamAddrs

StackTop == RamBase + 4 * RamWords + 4 * 64

\* the symbols for a .data of d words and a .bss of z words
Layout(d, z) ==
    ("_start" :> ResetVector) @@
    ("__global_pointer$" :> RamBase + GlobalPointerBias) @@
    ("_stack_start" :> StackTop) @@
    ("_sidata" :> LoadBase) @@
    ("_sdata" :> RamBase) @@
    ("_edata" :> RamBase + 4 * d) @@
    ("_sbss" :> RamBase + 4 * (d + GapWords)) @@
    ("_ebss" :> RamBase + 4 * (d + GapWords + z))

DataWords == (sym["_edata"] - sym["_sdata"]) \div 4
BssWords == (sym["_ebss"] - sym["_sbss"]) \div 4

DataRun == { sym["_sdata"] + 4 * k : k \in 0..(DataWords - 1) }
BssRun == { sym["_sbss"] + 4 * k : k \in 0..(BssWords - 1) }

\* initial values stored in the load image
LoadVals == {0, 5}

\* register files the core may hold at reset
ResetRegFiles ==
    { [r \in Regs |-> 0],
      [r \in Regs |-> Garbage],
      [r \in Regs |-> CHOOSE i \in 1..Len(RegNames) : RegNames[i] = r] }

\* RAM contents at reset: cleared, all ones, or alternating
ResetRams ==
    { [a \in RamAddrs |-> 0],
      [a \in RamAddrs |-> Garbage],
      [a \in RamAddrs |-> IF ((a - RamBase) \div 4) % 2 = 0 THEN Garbage ELSE 0] }

\* flash contents: any load image, followed by a word that is not part of it
ResetFlashes ==
    { [a \in FlashAddrs |-> IF a = LoadBase + 4 * MaxDataWords THEN Garbage ELSE f[a]] :
        f \in [FlashAddrs -> LoadVals] }

ResetMemories == { fl @@ rm : fl \in ResetFlashes, rm \in ResetRams }

-----------------------------------------------------------------------------
(* The assembly of _start *)

\* the li block with s0 (the frame pointer) zeroed along with s1..s11
ClearedRegs_WithS0 ==
    << "tp", "t0", "t1", "t2", "t3", "t4", "t5", "t6",
       "fp", "s1", "s2", "s3", "s4", "s5", "s6", "s7", "s8", "s9", "s10", "s11",
       "a0", "a1", "a2", "a3", "a4", "a5", "a6", "a7" >>

\* the li block with its last line (li a7, 0) left out
ClearedRegs_Short ==
    << "tp", "t0", "t1", "t2", "t3", "t4", "t5", "t6",
       "s1", "s2", "s3", "s4", "s5", "s6", "s7", "s8", "s9", "s10", "s11",
       "a0", "a1", "a2", "a3", "a4", "a5", "a6" >>

\* registers zeroed by the li block, in source order
ClearedRegs ==
    << "tp", "t0", "t1", "t2", "t3", "t4", "t5", "t6",
       "s1", "s2", "s3", "s4", "s5", "s6", "s7", "s8", "s9", "s10", "s11",
       "a0", "a1", "a2", "a3", "a4", "a5", "a6", "a7" >>

\* li tp, 0 ... li a7, 0
RegClear == [i \in 1..Len(ClearedRegs) |-> [op |-> "li", rd |-> ClearedRegs[i], imm |-> 0]]

\* la gp, __global_pointer$
GpSetup == << [op |-> "la", rd |-> "gp", sym |-> "__global_pointer$"] >>

\* la sp, _stack_start ; mv fp, sp
StackSetup ==
    << [op |-> "la", rd |-> "sp", sym |-> "_stack_start"],
       [op |-> "mv", rd |-> "fp", rs |-> "sp"] >>

\* the copy loop with the load cursor left where it is (addi t0, t0, 0)
DataCopy_NoLoadAdvance ==
    << [op |-> "la", rd |-> "t0", sym |-> "_sidata"],
       [op |-> "la", rd |-> "t1", sym |-> "_sdata"],
       [op |-> "la", rd |-> "t2", sym |-> "_edata"],
       [op |-> "beq", rs1 |-> "t1", rs2 |-> "t2", off |-> 6],
       [op |-> "lw", rd |-> "t3", rs1 |-> "t0", imm |-> 0],
       [op |-> "sw", rs2 |-> "t3", rs1 |-> "t1", imm |-> 0],
       [op |-> "addi", rd |-> "t0", rs1 |-> "t0", imm |-> 0],
       [op |-> "addi", rd |-> "t1", rs1 |-> "t1", imm |-> 4],
       [op |-> "bne", rs1 |-> "t1", rs2 |-> "t2", off |-> -4] >>

\* the .data copy loop (labels 100/101)
DataCopy ==
    << [op |-> "la", rd |-> "t0", sym |-> "_sidata"],
       [op |-> "la", rd |-> "t1", sym |-> "_sdata"],
       [op |-> "la", rd |-> "t2", sym |-> "_edata"],
       [op |-> "beq", rs1 |-> "t1", rs2 |-> "t2", off |-> 6],
       [op |-> "lw", rd |-> "t3", rs1 |-> "t0", imm |-> 0],
       [op |-> "sw", rs2 |-> "t3", rs1 |-> "t1", imm |-> 0],
       [op |-> "addi", rd |-> "t0", rs1 |-> "t0", imm |-> 4],
       [op |-> "addi", rd |-> "t1", rs1 |-> "t1", imm |-> 4],
       [op |-> "bne", rs1 |-> "t1", rs2 |-> "t2", off |-> -4] >>

\* the zero loop started at _edata instead of _sbss
BssZero_FromEdata ==
    << [op |-> "la", rd |-> "t1", sym |-> "_edata"],
       [op |-> "la", rd |-> "t2", sym |-> "_ebss"],
       [op |-> "beq", rs1 |-> "t1", rs2 |-> "t2", off |-> 4],
       [op |-> "sw", rs2 |-> "zero", rs1 |-> "t1", imm |-> 0],
       [op |-> "addi", rd |-> "t1", rs1 |-> "t1", imm |-> 4],
       [op |-> "bne", rs1 |-> "t1", rs2 |-> "t2", off |-> -2] >>

\* the zero loop without its emptiness test (the beq falls through either way)
BssZero_NoGuard ==
    << [op |-> "la", rd |-> "t1", sym |-> "_sbss"],
       [op |-> "la", rd |-> "t2", sym |-> "_ebss"],
       [op |-> "beq", rs1 |-> "t1", rs2 |-> "t2", off |-> 1],
       [op |-> "sw", rs2 |-> "zero", rs1 |-> "t1", imm |-> 0],
       [op |-> "addi", rd |-> "t1", rs1 |-> "t1", imm |-> 4],
       [op |-> "bne", rs1 |-> "t1", rs2 |-> "t2", off |-> -2] >>

\* the zero loop with the closing bne falling through (one store, then out)
BssZero_NoLoop ==
    << [op |-> "la", rd |-> "t1", sym |-> "_sbss"],
       [op |-> "la", rd |-> "t2", sym |-> "_ebss"],
       [op |-> "beq", rs1 |-> "t1", rs2 |-> "t2", off |-> 4],
       [op |-> "sw", rs2 |-> "zero", rs1 |-> "t1", imm |-> 0],
       [op |-> "addi", rd |-> "t1", rs1 |-> "t1", imm |-> 4],
       [op |-> "bne", rs1 |-> "t1", rs2 |-> "t2", off |-> 1] >>

\* the .bss zero loop (labels 200/201)
BssZero ==
    << [op |-> "la", rd |-> "t1", sym |-> "_sbss"],
       [op |-> "la", rd |-> "t2", sym |-> "_ebss"],
       [op |-> "beq", rs1 |-> "t1", rs2 |-> "t2", off |-> 4],
       [op |-> "sw", rs2 |-> "zero", rs1 |-> "t1", imm |-> 0],
       [op |-> "addi", rd |-> "t1", rs1 |-> "t1", imm |-> 4],
       [op |-> "bne", rs1 |-> "t1", rs2 |-> "t2", off |-> -2] >>

\* jal _start_rust  (jal with the default link register ra)
Transfer == << [op |-> "jal", rd |-> "ra", target |-> "_start_rust"] >>

\* main.rs without la sp / mv fp
ProgMain_NoStack == RegClear \o Transfer

ProgMain == RegClear \o StackSetup \o Transfer

ProgStep9 == GpSetup \o StackSetup \o DataCopy \o BssZero \o RegClear \o Transfer

Prog == IF variant = "main" THEN ProgMain ELSE ProgStep9

\* encoded size in bytes (la expands to auipc + addi; no compressed encodings)
InsnBytes(insn) == IF insn.op = "la" THEN 8 ELSE 4

RECURSIVE BytesBefore(_, _)
BytesBefore(prog, i) ==
    IF i <= 1 THEN 0 ELSE BytesBefore(prog, i - 1) + InsnBytes(prog[i - 1])

\* address of the instruction after table entry i
NextInsnAddr(i) == Add32(sym["_start"], BytesBefore(Prog, i + 1))

\* the bring-up step an instruction belongs to (cur: the step in progress)
StepOf(insn, cur) ==
    CASE insn.op = "la" /\ insn.rd = "gp" -> "gp"
      [] insn.op = "la" /\ insn.rd = "sp" -> "sp"
      [] insn.op = "mv" /\ insn.rd = "fp" -> "fp"
      [] insn.op = "la" /\ insn.sym \in {"_sidata", "_sdata", "_edata"} -> "copy"
      [] insn.op = "la" /\ insn.sym \in {"_sbss", "_ebss"} -> "zero"
      [] insn.op = "lw" -> "copy"
      [] insn.op = "sw" -> IF insn.rs2 = "zero" THEN "zero" ELSE "copy"
      [] insn.op = "li" -> "clear"
      [] insn.op = "jal" -> "jump"
      [] OTHER -> cur

Last(s) == IF s = << >> THEN "reset" ELSE s[Len(s)]

Enter(insn) ==
    LET st == StepOf(insn, Last(steps))
    IN  IF st = Last(steps) THEN steps ELSE Append(steps, st)

InRange(s, x) == \E i \in 1..Len(s) : s[i] = x

Fetching == loc = "_start" /\ pc \in 1..Len(Prog)

Cur == Prog[pc]

-----------------------------------------------------------------------------
(* Reset state *)

Init ==
    /\ variant \in {"main", "step9"}
    /\ \E d \in 0..MaxDataWords, z \in 0..MaxBssWords : sym = Layout(d, z)
    /\ regs \in ResetRegFiles
    /\ mem \in ResetMemories
    /\ pc = 1
    /\ loc = "_start"
    /\ b = 0
    /\ regs0 = regs
    /\ stale = Regs
    /\ mem0 = mem
    /\ steps = << >>
    /\ bus = << >>
    /\ io = << >>

Inputs == <<variant, sym, regs0, mem0>>

\* the stale registers once rd has been written from the source registers srcs:
\* rd is stale exactly when one of its sources was (x0 never is)
Derived(rd, srcs) ==
    IF srcs \cap stale # {} THEN stale \cup ({rd} \ {"zero"}) ELSE stale \ {rd}

-----------------------------------------------------------------------------
(* _start, one action per opcode *)

\* li rd, imm
ExecLi ==
    /\ Fetching /\ Cur.op = "li"
    /\ regs' = WriteReg(regs, Cur.rd, Cur.imm)
    /\ stale' = Derived(Cur.rd, {})
    /\ pc' = pc + 1
    /\ steps' = Enter(Cur)
    /\ UNCHANGED <<Inputs, mem, loc, b, bus, io>>

\* la rd, symbol
ExecLa ==
    /\ Fetching /\ Cur.op = "la"
    /\ regs' = WriteReg(regs, Cur.rd, sym[Cur.sym])
    /\ stale' = Derived(Cur.rd, {})
    /\ pc' = pc + 1
    /\ steps' = Enter(Cur)
    /\ UNCHANGED <<Inputs, mem, loc, b, bus, io>>

\* mv rd, rs
ExecMv ==
    /\ Fetching /\ Cur.op = "mv"
    /\ regs' = WriteReg(regs, Cur.rd, ReadReg(regs, Cur.rs))
    /\ stale' = Derived(Cur.rd, {Cur.rs})
    /\ pc' = pc + 1
    /\ steps' = Enter(Cur)
    /\ UNCHANGED <<Inputs, mem, loc, b, bus, io>>

\* addi rd, rs1, imm
ExecAddi ==
    /\ Fetching /\ Cur.op = "addi"
    /\ regs' = WriteReg(regs, Cur.rd, Add32(ReadReg(regs, Cur.rs1), Cur.imm))
    /\ stale' = Derived(Cur.rd, {Cur.rs1})
    /\ pc' = pc + 1
    /\ steps' = Enter(Cur)
    /\ UNCHANGED <<Inputs, mem, loc, b, bus, io>>

\* beq rs1, rs2, label
ExecBeq ==
    /\ Fetching /\ Cur.op = "beq"
    /\ pc' = IF ReadReg(regs, Cur.rs1) = ReadReg(regs, Cur.rs2) THEN pc + Cur.off ELSE pc + 1
    /\ steps' = Enter(Cur)
    /\ UNCHANGED <<Inputs, stale, regs, mem, loc, b, bus, io>>

\* the closing branch as a signed less-than test (blt) instead of bne
ExecBne_Blt ==
    /\ Fetching /\ Cur.op = "bne"
    /\ pc' = IF ReadReg(regs, Cur.rs1) < ReadReg(regs, Cur.rs2) THEN pc + Cur.off ELSE pc + 1
    /\ steps' = Enter(Cur)
    /\ UNCHANGED <<Inputs, stale, regs, mem, loc, b, bus, io>>

\* bne rs1, rs2, label
ExecBne ==
    /\ Fetching /\ Cur.op = "bne"
    /\ pc' = IF ReadReg(regs, Cur.rs1) # ReadReg(regs, Cur.rs2) THEN pc + Cur.off ELSE pc + 1
    /\ steps' = Enter(Cur)
    /\ UNCHANGED <<Inputs, stale, regs, mem, loc, b, bus, io>>

\* lw rd, imm(rs1); a read outside the mapped memory returns an arbitrary word
ExecLw ==
    /\ Fetching /\ Cur.op = "lw"
    /\ LET addr == Add32(ReadReg(regs, Cur.rs1), Cur.imm)
       IN  \E v \in (IF addr \in MemAddrs THEN {mem[addr]} ELSE {0, Garbage}) :
             /\ regs' = WriteReg(regs, Cur.rd, v)
             /\ bus' = Append(bus, [op |-> "lw", addr |-> addr, base |-> Cur.rs1, val |-> v,
                                    step |-> StepOf(Cur, Last(steps)),
                                    sp |-> InRange(steps, "sp")])
    /\ stale' = Derived(Cur.rd, {Cur.rs1})
    /\ pc' = pc + 1
    /\ steps' = Enter(Cur)
    /\ UNCHANGED <<Inputs, mem, loc, b, io>>

\* sw rs2, imm(rs1); a write outside the mapped memory is dropped
ExecSw ==
    /\ Fetching /\ Cur.op = "sw"
    /\ LET addr == Add32(ReadReg(regs, Cur.rs1), Cur.imm)
           v == ReadReg(regs, Cur.rs2)
       IN  /\ mem' = IF addr \in MemAddrs THEN [mem EXCEPT ![addr] = v] ELSE mem
           /\ bus' = Append(bus, [op |-> "sw", addr |-> addr, base |-> Cur.rs1, val |-> v,
                                  step |-> StepOf(Cur, Last(steps)),
                                  sp |-> InRange(steps, "sp")])
    /\ pc' = pc + 1
    /\ steps' = Enter(Cur)
    /\ UNCHANGED <<Inputs, stale, regs, loc, b, io>>

\* jal _start_rust: link in ra and enter start()
ExecJal ==
    /\ Fetching /\ Cur.op = "jal"
    /\ regs' = WriteReg(regs, Cur.rd, NextInsnAddr(pc))
    /\ stale' = Derived(Cur.rd, {})
    /\ pc' = 0
    /\ loc' = "start"
    /\ steps' = Enter(Cur)
    /\ UNCHANGED <<Inputs, mem, b, bus, io>>

-----------------------------------------------------------------------------
(* start() and the panic handler *)

UAT_WRITE == 4194312   \* 0x40_0008
UAT_STAT == 4194320    \* 0x40_0010

\* values the 16-bit status register may return
StatusVals == {0, 1, 90, 256, 346, 65535}

ZeroReads == Cardinality({ i \in 1..Len(io) : io[i].op = "read" /\ io[i].val = 0 })

\* the poll loop leaving on whatever the first read returns
PollStatus_BreakAlways ==
    /\ variant = "main" /\ loc \in {"start", "poll"}
    /\ \E v \in StatusVals :
         /\ v = 0 => ZeroReads < MaxPolls
         /\ io' = Append(io, [op |-> "read", addr |-> UAT_STAT, width |-> 2, val |-> v])
         /\ loc' = "reread"
    /\ UNCHANGED <<Inputs, stale, regs, mem, pc, b, steps, bus>>

\* main.rs: loop { if read_volatile(uat_stat) != 0 { break; } }
PollStatus ==
    /\ variant = "main" /\ loc \in {"start", "poll"}
    /\ \E v \in StatusVals :
         /\ v = 0 => ZeroReads < MaxPolls
         /\ io' = Append(io, [op |-> "read", addr |-> UAT_STAT, width |-> 2, val |-> v])
         /\ loc' = IF v # 0 THEN "reread" ELSE "poll"
    /\ UNCHANGED <<Inputs, stale, regs, mem, pc, b, steps, bus>>

\* the re-read kept at its full 16 bits
ReRead_NoNarrow ==
    /\ loc = "reread"
    /\ \E v \in StatusVals :
         /\ io' = Append(io, [op |-> "read", addr |-> UAT_STAT, width |-> 2, val |-> v])
         /\ b' = v
    /\ loc' = "write"
    /\ UNCHANGED <<Inputs, stale, regs, mem, pc, steps, bus>>

\* the byte taken from the read that ended the loop, with no second read
ReRead_ReuseLast ==
    /\ loc = "reread"
    /\ b' = io[Len(io)].val % 256
    /\ loc' = "write"
    /\ UNCHANGED <<Inputs, stale, regs, mem, pc, steps, bus, io>>

\* main.rs: let b = read_volatile(uat_stat) as u8;
ReRead ==
    /\ loc = "reread"
    /\ \E v \in StatusVals :
         /\ io' = Append(io, [op |-> "read", addr |-> UAT_STAT, width |-> 2, val |-> v])
         /\ b' = v % 256
    /\ loc' = "write"
    /\ UNCHANGED <<Inputs, stale, regs, mem, pc, steps, bus>>

\* the byte written to the status register's address
WriteData_ToStatus ==
    /\ loc = "write"
    /\ io' = Append(io, [op |-> "write", addr |-> UAT_STAT, width |-> 1, val |-> b])
    /\ loc' = "panic"
    /\ UNCHANGED <<Inputs, stale, regs, mem, pc, b, steps, bus>>

\* main.rs: write_volatile(uat_write, b);
WriteData ==
    /\ loc = "write"
    /\ io' = Append(io, [op |-> "write", addr |-> UAT_WRITE, width |-> 1, val |-> b])
    /\ loc' = "panic"
    /\ UNCHANGED <<Inputs, stale, regs, mem, pc, b, steps, bus>>

\* a panic that jumps back to the reset vector
Panic_Restart ==
    /\ \/ loc = "panic"
       \/ variant = "step9" /\ loc = "start"
    /\ loc' = "_start"
    /\ pc' = 1
    /\ UNCHANGED <<Inputs, stale, regs, mem, b, steps, bus, io>>

\* start() without its closing panic!() (only step9.rs still panics)
Panic_Missing ==
    /\ variant = "step9" /\ loc = "start"
    /\ loc' = "halt"
    /\ UNCHANGED <<Inputs, stale, regs, mem, pc, b, steps, bus, io>>

\* panic!(): the end of start() in main.rs, the whole of start() in step9.rs
Panic ==
    /\ \/ loc = "panic"
       \/ variant = "step9" /\ loc = "start"
    /\ loc' = "halt"
    /\ UNCHANGED <<Inputs, stale, regs, mem, pc, b, steps, bus, io>>

\* a panic handler that reports on the data register each time round
Halt_Report ==
    /\ loc = "halt"
    /\ io' = Append(io, [op |-> "write", addr |-> UAT_WRITE, width |-> 1, val |-> 0])
    /\ UNCHANGED <<Inputs, stale, regs, mem, pc, loc, b, steps, bus>>

\* the panic handler: loop {}
Halt ==
    /\ loc = "halt"
    /\ UNCHANGED vars

Next ==
    \/ ExecLi \/ ExecLa \/ ExecMv \/ ExecAddi \/ ExecBeq \/ ExecBne
    \/ ExecLw \/ ExecSw \/ ExecJal
    \/ PollStatus \/ ReRead \/ WriteData \/ Panic \/ Halt

Spec == Init /\ [][Next]_vars

-----------------------------------------------------------------------------
(* The same machine with a device that may stay silent.  Once the log holds  *)
(* MaxPolls zero reads, a further zero read is taken without being logged.   *)

\* main.rs: one more turn of the poll loop on a status of zero
PollIdle ==
    /\ variant = "main" /\ loc = "poll"
    /\ ZeroReads = MaxPolls
    /\ UNCHANGED vars

\* the steps the processor takes by itself, whatever the device returns
CpuStep ==
    \/ ExecLi \/ ExecLa \/ ExecMv \/ ExecAddi \/ ExecBeq \/ ExecBne
    \/ ExecLw \/ ExecSw \/ ExecJal
    \/ ReRead \/ WriteData \/ Panic

LiveNext == Next \/ PollIdle

\* the processor always executes its next instruction; nothing is assumed of
\* the value the status register returns
LiveSpec == Init /\ [][LiveNext]_vars /\ WF_vars(CpuStep)

-----------------------------------------------------------------------------
(* step9.rs with region bounds anywhere in the address space: regions that   *)
(* straddle 0xFFFFFFFF/0 or 0x7FFFFFFF/0x80000000, bounds that are not a     *)
(* whole number of words apart, and an end just below the begin.  Loops that *)
(* do not end are followed for MaxWrapBus loads and stores.                  *)

MaxWrapBus == 12

\* 32-bit subtraction with wraparound (0x80000000 is its own negative)
Sub32(a, c) == IF c = MinInt32 THEN Add32(Add32(a, MaxInt32), 1) ELSE Add32(a, -c)

WrapBegins == {RamBase, -8, MaxInt32 - 7}

\* end - begin in bytes
WrapSpans == {0, 4, 8, 12, 2, 6, -4}

WrapLayout(db, ds, zb, zs) ==
    ("_start" :> ResetVector) @@
    ("__global_pointer$" :> RamBase + GlobalPointerBias) @@
    ("_stack_start" :> StackTop) @@
    ("_sidata" :> LoadBase) @@
    ("_sdata" :> db) @@
    ("_edata" :> Add32(db, ds)) @@
    ("_sbss" :> zb) @@
    ("_ebss" :> Add32(zb, zs))

WrapInit ==
    /\ variant = "step9"
    /\ \E db \in WrapBegins, ds \in WrapSpans, zb \in WrapBegins, zs \in WrapSpans :
         sym = WrapLayout(db, ds, zb, zs)
    /\ regs \in ResetRegFiles
    /\ mem = [a \in MemAddrs |-> IF a \in RamAddrs THEN Garbage ELSE 5]
    /\ pc = 1
    /\ loc = "_start"
    /\ b = 0
    /\ regs0 = regs
    /\ stale = Regs
    /\ mem0 = mem
    /\ steps = << >>
    /\ bus = << >>
    /\ io = << >>

WrapRoom == Len(bus) < MaxWrapBus

WrapNext ==
    \/ WrapRoom /\ ExecLi
    \/ WrapRoom /\ ExecLa
    \/ WrapRoom /\ ExecMv
    \/ WrapRoom /\ ExecAddi
    \/ WrapRoom /\ ExecBeq
    \/ WrapRoom /\ ExecBne
    \/ WrapRoom /\ ExecLw
    \/ WrapRoom /\ ExecSw
    \/ WrapRoom /\ ExecJal
    \/ WrapRoom /\ Panic
    \/ WrapRoom /\ Halt

WrapSpec == WrapInit /\ [][WrapNext]_vars

\* table positions in step9.rs: the first instruction after each loop
AfterCopy == Len(GpSetup) + Len(StackSetup) + Len(DataCopy) + 1
AfterZero == AfterCopy + Len(BssZero)

CopyExited == loc # "_start" \/ pc >= AfterCopy
ZeroExited == loc # "_start" \/ pc >= AfterZero

\* (end - begin) mod 2^32 as a signed word: negative stands for 2^31 and more
DataSpan == Sub32(sym["_edata"], sym["_sdata"])
BssSpan == Sub32(sym["_ebss"], sym["_sbss"])

-----------------------------------------------------------------------------
(* Observations shared by the properties *)

\* start() is about to execute its first instruction
AtEntry == loc = "start"

\* the bus events of `kind` issued while bring-up step `st` was in progress
BusOf(kind, st) == { i \in 1..Len(bus) : bus[i].op = kind /\ bus[i].step = st }

LoadWord(i) == mem0[sym["_sidata"] + 4 * i]
RunWord(i) == mem[sym["_sdata"] + 4 * i]

-----------------------------------------------------------------------------
(* C1 - Faithful relocation.  When the relocating _start (step9.rs) has      *)
(* reached _start_rust, every word i of the run region [_sdata, _edata)      *)
(* equals word i of the load region as it was at reset; for an empty region  *)
(* the copy step has issued no load and no store.                            *)
C1_FaithfulRelocation ==
    (variant = "step9" /\ AtEntry) =>
        /\ \A i \in 0..(DataWords - 1) : RunWord(i) = LoadWord(i)
        /\ DataWords = 0 => BusOf("lw", "copy") = {} /\ BusOf("sw", "copy") = {}

\* a two-word region whose run words both differed from the load image at reset
C1_Witness ==
    /\ variant = "step9" /\ AtEntry
    /\ DataWords = 2
    /\ LoadWord(0) # LoadWord(1)
    /\ \A i \in 0..1 : mem0[sym["_sdata"] + 4 * i] # LoadWord(i)
    /\ \A i \in 0..1 : RunWord(i) = LoadWord(i)

-----------------------------------------------------------------------------
(* C2 - Zeroing.  When the relocating _start has reached _start_rust, every  *)
(* word of [_sbss, _ebss) reads zero; for an empty region the zero-fill step *)
(* has issued no store at all.                                               *)
C2_BssZeroed ==
    (variant = "step9" /\ AtEntry) =>
        /\ \A a \in BssRun : mem[a] = 0
        /\ BssWords = 0 => BusOf("sw", "zero") = {}

\* a full-size region that held all ones at reset
C2_Witness ==
    /\ variant = "step9" /\ AtEntry
    /\ BssWords = MaxBssWords
    /\ \A a \in BssRun : mem0[a] = Garbage /\ mem[a] = 0

-----------------------------------------------------------------------------
(* C3 - Register clear.  As claimed: when start() is about to execute its    *)
(* first instruction, every register x1..x31 other than sp and fp is zero.   *)
C3_AllButSpFpZero ==
    AtEntry => \A r \in Regs \ {"sp", "fp"} : regs[r] = 0

(* C3, amended - when start() is about to execute its first instruction,     *)
(* every register x1..x31 other than ra, gp, sp and fp is zero, whatever the *)
(* register file held at reset.                                              *)
C3_ClearedRegsZero ==
    AtEntry => \A r \in Regs \ {"ra", "gp", "sp", "fp"} : regs[r] = 0

\* entry reached from a register file of all ones
C3_Witness ==
    /\ AtEntry
    /\ \A r \in Regs : regs0[r] = Garbage
    /\ regs["a7"] = 0 /\ regs["t3"] = 0

-----------------------------------------------------------------------------
(* C4 - Poll-then-act.  Every write of start() goes to the data register and *)
(* comes after a status read that returned non-zero (so none while all reads *)
(* so far returned zero), and there is at most one write.                    *)
Writes == { i \in 1..Len(io) : io[i].op = "write" }

C4_PollThenAct ==
    /\ \A i \in Writes :
         /\ io[i].addr = UAT_WRITE
         /\ \E j \in 1..(i - 1) :
              io[j].op = "read" /\ io[j].addr = UAT_STAT /\ io[j].val # 0
    /\ Cardinality(Writes) <= 1

\* two zero polls, a non-zero poll, and the write done
C4_Witness ==
    /\ Len(io) >= 4
    /\ io[1].val = 0 /\ io[2].val = 0 /\ io[3].val # 0
    /\ Cardinality(Writes) = 1

-----------------------------------------------------------------------------
(* C5 - Read/write counts.  n: the number of zero reads before the first     *)
(* non-zero one.                                                             *)
Reads == { i \in 1..Len(io) : io[i].op = "read" }

FirstNonZero ==
    CHOOSE i \in 1..Len(io) : io[i].val # 0 /\ \A j \in 1..(i - 1) : io[j].val = 0

(* As claimed: after n zeros and a non-zero value, start() has made exactly  *)
(* n+1 status reads in all and one data write when it halts.                 *)
C5_ReadsAsClaimed ==
    (variant = "main" /\ loc = "halt") =>
        LET n == FirstNonZero - 1
        IN  Cardinality(Reads) = n + 1 /\ Cardinality(Writes) = 1

(* C5, amended - after n zeros and a non-zero value, start() has made n+1    *)
(* polling reads and one further read (n+2 status reads in all), then one    *)
(* write of that last read's low byte, and nothing else, when it halts; for  *)
(* 0,0,1 then 0x5A that is 4 status reads and one write of 0x5A.             *)
C5_ReadCounts ==
    (variant = "main" /\ loc = "halt") =>
        LET n == FirstNonZero - 1
        IN  /\ Len(io) = n + 3
            /\ \A i \in 1..(n + 2) :
                 io[i].op = "read" /\ io[i].addr = UAT_STAT /\ io[i].width = 2
            /\ \A i \in 1..n : io[i].val = 0
            /\ io[n + 1].val # 0
            /\ io[n + 3] = [op |-> "write", addr |-> UAT_WRITE, width |-> 1,
                            val |-> io[n + 2].val % 256]

\* the scenario 0,0,1 then 0x5A, halted
C5_Witness ==
    /\ variant = "main" /\ loc = "halt"
    /\ Len(io) = 5
    /\ <<io[1].val, io[2].val, io[3].val, io[4].val>> = <<0, 0, 1, 90>>
    /\ io[5].op = "write" /\ io[5].val = 90

-----------------------------------------------------------------------------
(* C6 - Terminal halt.  From a state inside the panic handler's loop every   *)
(* step stays there and leaves memory, the bus log and the volatile-access   *)
(* log as they are.                                                          *)
C6_TerminalHalt ==
    [][loc = "halt" => (loc' = "halt" /\ mem' = mem /\ bus' = bus /\ io' = io)]_vars

\* halted after the echo
C6_Witness == loc = "halt" /\ variant = "main" /\ Cardinality(Writes) = 1

-----------------------------------------------------------------------------
(* C7 - Mandatory step order.  The bring-up steps are entered in the order   *)
(* gp, sp, fp, copy, zero, clear, jump, and no register is zeroed before sp  *)
(* has been loaded.                                                          *)
StepRank(st) ==
    CASE st = "gp" -> 1 [] st = "sp" -> 2 [] st = "fp" -> 3 [] st = "copy" -> 4
      [] st = "zero" -> 5 [] st = "clear" -> 6 [] st = "jump" -> 7

C7_MandatoryOrder ==
    /\ \A i, j \in 1..Len(steps) : i < j => StepRank(steps[i]) < StepRank(steps[j])
    /\ InRange(steps, "clear") => InRange(steps, "sp")

-----------------------------------------------------------------------------
(* C8 - Entry precondition.  Whenever start() begins, the run region equals  *)
(* the reset-time load region word for word and every bss word is zero.      *)
C8_EntryPrecondition ==
    AtEntry =>
        /\ \A i \in 0..(DataWords - 1) : RunWord(i) = LoadWord(i)
        /\ \A a \in BssRun : mem[a] = 0

-----------------------------------------------------------------------------
(* C9 - No premature stack use.  Every load or store of _start addressed     *)
(* through sp or fp was issued after la sp, _stack_start, and so was the     *)
(* call jal _start_rust.                                                     *)
C9_NoPrematureStackUse ==
    /\ \A i \in 1..Len(bus) : bus[i].base \in {"sp", "fp"} => bus[i].sp
    /\ \A j \in 1..Len(steps) :
         steps[j] = "jump" => \E i \in 1..(j - 1) : steps[i] = "sp"
    /\ loc # "_start" => InRange(steps, "jump")

\* the call made, after loads and stores
C9_Witness == AtEntry /\ Len(bus) > 0 /\ regs["sp"] = sym["_stack_start"]

-----------------------------------------------------------------------------
(* C10 - Iteration counts.  In the relocating _start every copy store lands  *)
(* in [_sdata, _edata) and every zero store in [_sbss, _ebss); at entry the  *)
(* copy step has issued exactly D/4 loads and D/4 stores and the zero-fill   *)
(* exactly B/4 stores, and the other steps ran as always (all seven steps in *)
(* order, sp at the stack top).                                              *)
C10_IterationCounts ==
    variant = "step9" =>
        /\ \A i \in BusOf("sw", "copy") : bus[i].addr \in DataRun
        /\ \A i \in BusOf("sw", "zero") : bus[i].addr \in BssRun
        /\ AtEntry =>
             /\ Cardinality(BusOf("lw", "copy")) = DataWords
             /\ Cardinality(BusOf("sw", "copy")) = DataWords
             /\ Cardinality(BusOf("sw", "zero")) = BssWords
             /\ Len(bus) = 2 * DataWords + BssWords
             /\ steps = <<"gp", "sp", "fp", "copy", "zero", "clear", "jump">>
             /\ regs["sp"] = sym["_stack_start"]

\* D = 0 and B = 16 bytes: no copy iteration, four word stores
C10_Witness ==
    /\ variant = "step9" /\ AtEntry
    /\ DataWords = 0 /\ BssWords = 4
    /\ BusOf("lw", "copy") = {} /\ BusOf("sw", "copy") = {}
    /\ Cardinality(BusOf("sw", "zero")) = 4

-----------------------------------------------------------------------------
(* C11 - Unbounded poll, eventual halt.  In main.rs, as long as every status *)
(* read has returned zero, start() is in its poll loop and has written       *)
(* nothing (so it is there for ever if the device never answers); once a     *)
(* read has returned non-zero, start() eventually has made its one write and *)
(* is in the panic loop.                                                     *)
AllReadsZero == \A i \in Reads : io[i].val = 0

C11_PollUntilAnswered ==
    /\ []((variant = "main" /\ loc # "_start" /\ AllReadsZero) =>
            (loc \in {"start", "poll"} /\ Writes = {}))
    /\ (variant = "main" /\ ~AllReadsZero) ~> (loc = "halt" /\ Cardinality(Writes) = 1)

\* halted after the device stayed silent for as long as the log can tell
C11_Witness ==
    /\ variant = "main" /\ loc = "halt"
    /\ ZeroReads >= MaxPolls
    /\ io[FirstNonZero].op = "read"
    /\ Cardinality(Writes) = 1

\* as a check of the device's freedom: start() need not ever leave the loop
C11_AlwaysAnswered == (variant = "main") ~> (loc = "halt")

-----------------------------------------------------------------------------
(* C12 - Reset independence.  When start() is about to execute its first     *)
(* instruction, no register holds a value that derives from the register     *)
(* file at reset: the register file at entry is the same whatever the reset  *)
(* contents were.                                                            *)
C12_ResetIndependent == AtEntry => stale = {}

-----------------------------------------------------------------------------
(* C13 - Linear one-way control flow.  Every step stays in its phase or      *)
(* moves to a later one (Reset Sequencer, Entry Function, Fatal Halt); the   *)
(* first instruction of _start is never reached again; start() is entered    *)
(* only by the jal of _start, which executes once; nothing returns to the    *)
(* code after the jal.                                                       *)
PhaseOf(l) == CASE l = "_start" -> 1 [] l = "halt" -> 3 [] OTHER -> 2

C13_LinearFlow ==
    /\ [](Cardinality({ i \in 1..Len(steps) : steps[i] = "jump" }) <= 1)
    /\ [][ /\ PhaseOf(loc') >= PhaseOf(loc)
           /\ pc' # 1
           /\ loc' = "start" => (loc = "_start" /\ Cur.op = "jal")
           /\ loc # "_start" => pc' = 0 ]_vars

\* all three phases passed: bring-up, the echo of start(), the panic loop
C13_Witness ==
    /\ loc = "halt" /\ variant = "main"
    /\ steps = <<"clear", "sp", "fp", "jump">>
    /\ Cardinality(Writes) = 1

-----------------------------------------------------------------------------
(* C14 - Byte narrowing.  The byte start() writes is v mod 256, where v is   *)
(* the value returned by the status read made just before the write, and     *)
(* that read comes after the read that ended the poll loop.                  *)
C14_ByteNarrowing ==
    \A i \in Writes :
        /\ i - 1 > FirstNonZero
        /\ io[i - 1].op = "read" /\ io[i - 1].addr = UAT_STAT
        /\ io[i].val = io[i - 1].val % 256
        /\ io[i].val \in 0..255

\* the loop ended on 1, the re-read returned 0x015A, and 0x5A was written
C14_Witness ==
    /\ Len(io) = 3
    /\ io[1].val = 1 /\ io[2].val = 346
    /\ io[3].op = "write" /\ io[3].val = 90

-----------------------------------------------------------------------------
(* C15 - Register directions.  Every volatile access of start() is either a  *)
(* 2-byte read of 0x400010 or a 1-byte write of 0x400008: the status         *)
(* register is never written, the data register never read, and no other     *)
(* memory-mapped address is touched.                                         *)
C15_RegisterDirections ==
    \A i \in 1..Len(io) :
        \/ io[i].op = "read" /\ io[i].addr = UAT_STAT /\ io[i].width = 2
        \/ io[i].op = "write" /\ io[i].addr = UAT_WRITE /\ io[i].width = 1

\* a complete echo: polls, the re-read and the write
C15_Witness ==
    /\ variant = "main" /\ loc = "panic"
    /\ Cardinality(Reads) = MaxPolls + 2
    /\ Cardinality(Writes) = 1

-----------------------------------------------------------------------------
(* C16 - Stack established at entry.  When start() is about to execute its   *)
(* first instruction, sp is _stack_start and fp equals sp; and once          *)
(* mv fp, sp has executed, no later step of _start changes sp or fp.         *)
C16_StackAtEntry ==
    /\ [](AtEntry => (regs["sp"] = sym["_stack_start"] /\ regs["fp"] = regs["sp"]))
    /\ [][(loc = "_start" /\ InRange(steps, "fp")) =>
            (regs'["sp"] = regs["sp"] /\ regs'["fp"] = regs["fp"])]_vars

\* entry reached through the copy, the zero-fill and the register clear
C16_Witness ==
    /\ variant = "step9" /\ AtEntry
    /\ regs0["sp"] = Garbage /\ regs0["fp"] = Garbage
    /\ BusOf("sw", "copy") # {} /\ BusOf("sw", "zero") # {}
    /\ regs["fp"] = sym["_stack_start"]

-----------------------------------------------------------------------------
(* C17 - Loop termination under 32-bit wraparound.  Each loop of step9.rs is *)
(* left only with its cursor t1 equal to the end address; when it has been   *)
(* left, end - begin (mod 2^32) is a multiple of 4 and the loop has made     *)
(* exactly that many divided by 4 iterations, also for a region that wraps   *)
(* round the address space; a loop over bounds a multiple of 4 apart never   *)
(* makes more iterations than that; a loop over bounds that are not a        *)
(* multiple of 4 apart is never left (t2 - t1 keeps its remainder mod 4).    *)
InCopyLoop == loc = "_start" /\ pc \in (AfterCopy - 5)..(AfterCopy - 1)
InZeroLoop == loc = "_start" /\ pc \in (AfterZero - 3)..(AfterZero - 1)

C17_LoopTermination ==
    /\ (loc = "_start" /\ pc = AfterCopy) => regs["t1"] = sym["_edata"]
    /\ (loc = "_start" /\ pc = AfterZero) => regs["t1"] = sym["_ebss"]
    /\ CopyExited =>
         /\ DataSpan >= 0 /\ DataSpan % 4 = 0
         /\ Cardinality(BusOf("sw", "copy")) = DataSpan \div 4
    /\ ZeroExited =>
         /\ BssSpan >= 0 /\ BssSpan % 4 = 0
         /\ Cardinality(BusOf("sw", "zero")) = BssSpan \div 4
    /\ (DataSpan >= 0 /\ DataSpan % 4 = 0) =>
         Cardinality(BusOf("sw", "copy")) <= DataSpan \div 4
    /\ (BssSpan >= 0 /\ BssSpan % 4 = 0 /\ CopyExited) =>
         Cardinality(BusOf("sw", "zero")) <= BssSpan \div 4
    /\ DataSpan % 4 # 0 => ~CopyExited
    /\ BssSpan % 4 # 0 => ~ZeroExited
    /\ InCopyLoop => Sub32(regs["t2"], regs["t1"]) % 4 = DataSpan % 4
    /\ InZeroLoop => Sub32(regs["t2"], regs["t1"]) % 4 = BssSpan % 4

\* both loops left after three iterations, .data running from 0xFFFFFFF8 to
\* 0x00000004 and .bss from 0x7FFFFFF8 to 0x80000004
C17_Witness ==
    /\ loc = "_start" /\ pc = AfterZero
    /\ sym["_sdata"] = -8 /\ sym["_edata"] = 4
    /\ sym["_sbss"] = MaxInt32 - 7 /\ sym["_ebss"] = MinInt32 + 4
    /\ Cardinality(BusOf("sw", "copy")) = 3
    /\ Cardinality(BusOf("sw", "zero")) = 3

\* a loop over misaligned bounds still running when the log is full
C17_StillRunning ==
    /\ Len(bus) = MaxWrapBus
    /\ DataSpan = 6 /\ InCopyLoop

-----------------------------------------------------------------------------
(* C18 - Memory frame of _start.  main.rs issues no load and no store and    *)
(* leaves memory as it was at reset.  step9.rs, for disjoint well-formed     *)
(* regions, stores only inside [_sdata, _edata) and [_sbss, _ebss): the zero *)
(* stores all fall outside the run region, which keeps the copied image once *)
(* the zero-fill has begun, and every word outside the two regions (the load *)
(* region included) keeps its reset value.                                   *)
C18_MemoryFrame ==
    /\ variant = "main" => (bus = << >> /\ mem = mem0)
    /\ variant = "step9" =>
         /\ \A i \in 1..Len(bus) :
              bus[i].op = "sw" => bus[i].addr \in DataRun \cup BssRun
         /\ \A i \in BusOf("sw", "zero") : bus[i].addr \notin DataRun
         /\ \A a \in FlashAddrs : mem[a] = mem0[a]
         /\ \A a \in MemAddrs \ (DataRun \cup BssRun) : mem[a] = mem0[a]
         /\ InRange(steps, "zero") =>
              \A i \in 0..(DataWords - 1) : RunWord(i) = LoadWord(i)

\* both regions rewritten, the padding word and the word after .bss untouched
C18_Witness ==
    /\ variant = "step9" /\ AtEntry
    /\ DataWords = MaxDataWords /\ BssWords = MaxBssWords
    /\ \A a \in DataRun \cup BssRun : mem[a] # mem0[a]
    /\ mem[sym["_edata"]] = Garbage /\ mem[sym["_ebss"]] = Garbage

====
